---- MODULE Spec2Model ----
(***************************************************************************)
(* Client-side status polling (hooks/useSystemStatus.ts with               *)
(* lib/api.ts ApiService), the reconnecting event channel                  *)
(* (hooks/useWebSocket.ts), the model configuration store                  *)
(* (components/ModelProvider.tsx with ModelSelector's save flow) and the   *)
(* process-log buffers of DataGenerator and RealTimeStatus.                *)
(*                                                                         *)
(* React semantics kept by the model: a state setter (setIsChecking) only  *)
(* schedules the new value; the callbacks already created keep the value   *)
(* they closed over until the component renders again.  A render that      *)
(* changes isChecking gives checkSystemStatus a new identity               *)
(* (useCallback deps [isChecking]) and so re-runs the effect whose deps    *)
(* are [checkSystemStatus, checkInterval].  Refs (useRef) are shared       *)
(* mutable cells read at call time.                                        *)
(***************************************************************************)
EXTENDS Integers, Sequences, FiniteSets, Bags, TLC

\* ---------------------------------------------------------------- bounds
\* poll cycles started in one behaviour
MaxCycles == 2

VARIABLES
    \* ---- useSystemStatus
    status,         \* useState<SystemStatusData>: the status last published
    isChecking,     \* useState(false): the value last set
    cbIsChecking,   \* isChecking as closed over by the rendered checkSystemStatus
    effectDue,      \* the polling effect is scheduled to (re-)run
    effectRan,      \* the polling effect has run at least once
    checkInterval,  \* the hook's argument
    intervalOn,     \* a setInterval timer is armed
    intervalCb,     \* isChecking as closed over by the callback given to setInterval
    cycles,         \* bag of poll cycles suspended at an await
    started,        \* number of poll cycles started
    \* ---- observation of the last step (history only, never read by an action guard)
    lastEvent,      \* what the last step did
    lastCycle,      \* probe results seen by the cycle that published in the last step:
                    \* the health response, how the agents probe settled and the
                    \* orchestrator_status it carried, and status.websockets
                    \* as it was before the publication
    lastProbe,      \* the transport outcome the last step's healthCheck() saw and
                    \* what it returned
    \* ---- useWebSocket
    url,                  \* the hook's argument (channel name), "" when none
    mounted,              \* the component using the hook is mounted
    wsEffectDue,          \* the connect effect of the first render has not run yet
    socks,                \* every WebSocket created so far: readyState, and the url and the
                          \* options.onMessage of the connect closure that created it
    lastMessage,          \* useState<WebSocketMessage | null>(null): the value last set
    onMessageProp,        \* options.onMessage as passed by the consumer's latest render,
                          \* "none" when it passes none
    ws,                   \* ws.current: index into socks, 0 for null
    reconnectAttempts,    \* reconnectAttempts.current
    timeouts,             \* every setTimeout made so far: delay, url of its connect closure, state
    reconnectTimeoutRef,  \* reconnectTimeoutRef.current: index into timeouts, 0 for null
    isConnected,          \* useState(false)
    error,                \* useState<string | null>(null)
    \* ---- observation of the channel (history only, never read by an action guard)
    lostSinceOpen,        \* close events since the last successful open
    delaysSinceOpen,      \* delays of the reconnects scheduled since the last successful open
    lastWsEvent,          \* what the last channel step was
    lastScheduled,        \* delay of the timer the last step scheduled, 0 when none
    lastNotify,           \* the options.on... observers the last step called, in call order
    lastValid,            \* the message of the latest frame that parsed, NoMessage before
    lastTraffic,          \* what the last step received, delivered and transmitted, and
                          \* the channel state before it
    torn,                 \* disconnect() ran and the effect has not connected since
    \* ---- ModelProvider and ModelSelector
    currentModel,         \* useState<ModelConfig | null>(null) of ModelProvider
    storage,              \* localStorage value under 'datagenesis-model-config'
    loadDue,              \* the load effect of the mounted ModelProvider has not run yet
    save,                 \* the handleSave call suspended at an await, NoSave when none
    validationStatus,     \* validationState.status of ModelSelector
    \* ---- observation of the store (history only, never read by an action guard)
    lastStore,            \* the last store step: operation, argument, currentModel and
                          \* storage before it
    lastSet,              \* config last given to setModel and not removed since, else Null
    \* ---- DataGenerator / RealTimeStatus process logs
    component,            \* which of the two components is mounted
    backend,              \* job and completion of the latest generation_update seen
    processLogs,          \* useState([]): the log buffer
    currentGeneration,    \* useState({ active: false }) of RealTimeStatus
    logTimers,            \* pending setTimeout calls of RealTimeStatus's effect
    isGenerating,         \* useState(false) of DataGenerator
    generateAwaiting,     \* a handleGenerate call is suspended at its await
    \* ---- observation of the buffer (history only, never read by an action guard
    \*      other than the bound on the behaviour's length)
    appended,             \* entries appended so far
    sinceClear,           \* entries appended since the buffer was last emptied
    lastCleanup           \* whether the timer that fired in the last step emptied a buffer
                          \* holding entries of a later job, or reset currentGeneration
                          \* while a later job was active

statusVars == <<status, isChecking, cbIsChecking, effectDue, effectRan, checkInterval,
                intervalOn, intervalCb, cycles, started, lastEvent, lastCycle,
                lastProbe>>

wsVars == <<url, mounted, wsEffectDue, socks, ws, reconnectAttempts, timeouts,
            reconnectTimeoutRef, isConnected, error, lostSinceOpen, delaysSinceOpen,
            lastWsEvent, lastScheduled, lastNotify, torn, lastMessage, onMessageProp,
            lastValid, lastTraffic>>

storeVars == <<currentModel, storage, loadDue, save, validationStatus, lastStore, lastSet>>

logVars == <<component, backend, processLogs, currentGeneration, logTimers, isGenerating,
             generateAwaiting, appended, sinceClear, lastCleanup>>

vars == <<statusVars, wsVars, storeVars, logVars>>

\* what a step of one component leaves alone
outsideStatus == <<wsVars, storeVars, logVars>>
outsideChannel == <<statusVars, storeVars, logVars>>
outsideStore == <<statusVars, wsVars, logVars>>
outsideLogs == <<statusVars, wsVars, storeVars>>

\* ------------------------------------------------------------ ApiService
\* Values of the keys of data.services in the body of GET /health; "missing" is an
\* absent key (optional chaining yields undefined).  The code compares gemini.status
\* with 'ready' only, so an absent gemini key takes the same path as "starting".
GeminiKeys == {"ready", "starting"}
AgentsKeys == {"active", "missing"}
WebsocketsKeys == {"ready", "missing"}

\* healthResponse.data: present is FALSE for `data: undefined`
NoData == [present |-> FALSE, gemini |-> "missing", agents |-> "missing",
           websockets |-> "missing"]
Payloads == [present : {TRUE}, gemini : GeminiKeys, agents : AgentsKeys,
             websockets : WebsocketsKeys]

\* What api.get('/health') does: resolves with a 2xx response, or rejects
\* (timeout, network error, non-2xx).
AllReady == [present |-> TRUE, gemini |-> "ready", agents |-> "active",
             websockets |-> "ready"]
HealthTransports ==
    [kind : {"response"}, code : {200}, data : Payloads]
    \cup {[kind |-> "response", code |-> 204, data |-> AllReady], [kind |-> "reject"]}

healthCheckMutAny2xx(t) ==
    IF t.kind = "response"
    THEN [healthy |-> TRUE, data |-> t.data]
    ELSE [healthy |-> FALSE, data |-> NoData]

healthCheck(t) ==
    IF t.kind = "response"
    THEN [healthy |-> (t.code = 200), data |-> t.data]
    ELSE [healthy |-> FALSE, data |-> NoData]

\* What ApiService.getAgentsStatus() does: rethrows a transport failure, else returns
\* response.data: a falsy or agents-less body ("empty"), or a body with an agents mapping.
AgentStates == {"active", "idle"}
AgentMaps == {<<>>, <<"active", "idle">>, <<"active", "active">>}
AgentsResults ==
    [kind : {"data"}, orchestrator_status : {"active", "idle"},
     total_agents : {0, 1}, agents : AgentMaps]
    \cup {[kind |-> "throw"], [kind |-> "empty"]}

\* ------------------------------------------------------- useSystemStatus
NoDetails == <<"undefined">>

initialStatus ==
    [backend |-> [healthy |-> FALSE, lastCheck |-> "null", error |-> "undefined"],
     gemini |-> [status |-> "unknown"],
     agents |-> [active |-> FALSE, total |-> 5, operational |-> 0, details |-> NoDetails],
     websockets |-> [connected |-> FALSE, status |-> "disconnected"],
     overall |-> [status |-> "unhealthy", message |-> "Checking system status..."]]

\* const newStatus = {...} built from healthResponse
newStatusOfMutAgentsInactive(h) ==
    [backend |-> [healthy |-> h.healthy, lastCheck |-> "set",
                  error |-> IF h.healthy THEN "undefined" ELSE "Connection failed"],
     gemini |-> [status |-> IF h.data.gemini = "ready" THEN "online" ELSE "online"],
     agents |-> [active |-> FALSE, total |-> 5, operational |-> 0, details |-> NoDetails],
     websockets |-> [connected |-> (h.data.websockets = "ready"),
                     status |-> IF h.data.websockets = "missing" THEN "unknown"
                                ELSE h.data.websockets],
     overall |-> [status |-> "healthy", message |-> "All systems operational"]]

newStatusOf(h) ==
    [backend |-> [healthy |-> h.healthy, lastCheck |-> "set",
                  error |-> IF h.healthy THEN "undefined" ELSE "Connection failed"],
     gemini |-> [status |-> IF h.data.gemini = "ready" THEN "online" ELSE "online"],
     agents |-> [active |-> (h.data.agents = "active"), total |-> 5,
                 operational |-> IF h.data.agents = "active" THEN 5 ELSE 0,
                 details |-> NoDetails],
     websockets |-> [connected |-> (h.data.websockets = "ready"),
                     status |-> IF h.data.websockets = "missing" THEN "unknown"
                                ELSE h.data.websockets],
     overall |-> [status |-> "healthy", message |-> "All systems operational"]]

RECURSIVE CountActive(_)
CountActive(m) ==
    IF m = <<>> THEN 0
    ELSE (IF Head(m) = "active" THEN 1 ELSE 0) + CountActive(Tail(m))

\* the inner try/catch around getAgentsStatus()
withAgentStatusMutReset(ns, r) ==
    IF r.kind = "data"
    THEN [ns EXCEPT !.agents =
            [active |-> (r.orchestrator_status = "active"),
             total |-> IF r.total_agents = 0 THEN 5 ELSE r.total_agents,
             operational |-> CountActive(r.agents),
             details |-> r.agents]]
    ELSE [ns EXCEPT !.agents =
            [active |-> FALSE, total |-> 5, operational |-> 0, details |-> NoDetails]]

withAgentStatus(ns, r) ==
    IF r.kind = "data"
    THEN [ns EXCEPT !.agents =
            [active |-> (r.orchestrator_status = "active"),
             total |-> IF r.total_agents = 0 THEN 5 ELSE r.total_agents,
             operational |-> CountActive(r.agents),
             details |-> r.agents]]
    ELSE ns

\* "Determine overall system status"
withOverallMutDegraded(ns) ==
    IF ns.backend.healthy /\ ns.gemini.status = "online" /\ ns.agents.active
    THEN [ns EXCEPT !.overall = [status |-> "healthy",
            message |-> "All systems operational - Full AI generation available"]]
    ELSE [ns EXCEPT !.overall = [status |-> "degraded",
            message |-> "Partial functionality available"]]

withOverall(ns) ==
    IF ns.backend.healthy /\ ns.gemini.status = "online" /\ ns.agents.active
    THEN [ns EXCEPT !.overall = [status |-> "healthy",
            message |-> "All systems operational - Full AI generation available"]]
    ELSE IF ns.backend.healthy
    THEN [ns EXCEPT !.overall = [status |-> "degraded",
            message |-> IF ns.gemini.status = "offline"
                        THEN "Backend healthy, Gemini offline - Local generation available"
                        ELSE "Partial functionality available"]]
    ELSE [ns EXCEPT !.overall = [status |-> "unhealthy",
            message |-> "AI system unavailable - Please check connection"]]

\* the catch block's errorStatus
errorStatusMutHealthy(msg) ==
    [backend |-> [healthy |-> TRUE, lastCheck |-> "set", error |-> msg],
     gemini |-> [status |-> "offline"],
     agents |-> [active |-> FALSE, total |-> 5, operational |-> 0, details |-> NoDetails],
     websockets |-> [connected |-> FALSE, status |-> "error"],
     overall |-> [status |-> "unhealthy", message |-> "System health check failed"]]

errorStatus(msg) ==
    [backend |-> [healthy |-> FALSE, lastCheck |-> "set", error |-> msg],
     gemini |-> [status |-> "offline"],
     agents |-> [active |-> FALSE, total |-> 5, operational |-> 0, details |-> NoDetails],
     websockets |-> [connected |-> FALSE, status |-> "error"],
     overall |-> [status |-> "unhealthy", message |-> "System health check failed"]]

\* error instanceof Error ? error.message : 'Unknown error'
ErrorMessages == {"Network Error", "Unknown error"}

NoCycle == [health |-> [healthy |-> FALSE, data |-> NoData], agents |-> "none",
            orchestrator |-> "none",
            websockets |-> [connected |-> FALSE, status |-> "disconnected"]]

NoProbe == [transport |-> [kind |-> "none"],
            result |-> [healthy |-> FALSE, data |-> NoData]]

\* A cycle suspended at `await ApiService.healthCheck()`
AtHealth == [pc |-> "health"]
\* A cycle suspended at `await ApiService.getAgentsStatus()` with its locals
AtAgents(h, ns) == [pc |-> "agents", healthResponse |-> h, newStatus |-> ns]

InFlight == BagCardinality(cycles)

\* checkSystemStatus() up to its first await, called through a callback that closed
\* over isChecking = closure
checkSystemStatus(closure, cause) ==
    IF closure
    THEN /\ UNCHANGED <<isChecking, cycles, started>>
         /\ lastEvent' = "dropped"
    ELSE /\ started < MaxCycles
         /\ isChecking' = TRUE
         /\ cycles' = cycles (+) SetToBag({AtHealth})
         /\ started' = started + 1
         /\ lastEvent' = cause

\* React renders after isChecking changed: the callbacks are re-created and the
\* effect is scheduled, its dependency checkSystemStatus having a new identity.
\* Pending effects are flushed before the next render.
Render ==
    /\ UNCHANGED outsideStatus
    /\ ~effectDue
    /\ cbIsChecking # isChecking
    /\ cbIsChecking' = isChecking
    /\ effectDue' = TRUE
    /\ lastEvent' = "render"
    /\ lastCycle' = NoCycle
    /\ lastProbe' = NoProbe
    /\ UNCHANGED <<status, isChecking, effectRan, checkInterval, intervalOn, intervalCb,
                   cycles, started>>

\* useEffect(() => { checkSystemStatus(); if (checkInterval > 0) {setInterval...} }),
\* preceded by the cleanup of its previous run (clearInterval)
RunEffect ==
    /\ UNCHANGED outsideStatus
    /\ effectDue
    /\ checkSystemStatus(cbIsChecking, IF effectRan THEN "start:effect-rerun" ELSE "start:mount")
    /\ effectDue' = FALSE
    /\ effectRan' = TRUE
    /\ intervalOn' = (checkInterval > 0)
    /\ intervalCb' = IF checkInterval > 0 THEN cbIsChecking ELSE FALSE
    /\ lastCycle' = NoCycle
    /\ lastProbe' = NoProbe
    /\ UNCHANGED <<status, cbIsChecking, checkInterval>>

\* the setInterval timer fires
IntervalTick ==
    /\ UNCHANGED outsideStatus
    /\ intervalOn
    /\ checkSystemStatus(intervalCb, "start:tick")
    /\ lastCycle' = NoCycle
    /\ lastProbe' = NoProbe
    /\ UNCHANGED <<status, cbIsChecking, effectDue, effectRan, checkInterval, intervalOn,
                   intervalCb>>

\* the consumer calls the forceCheck of the current render
forceCheck ==
    /\ UNCHANGED outsideStatus
    /\ effectRan
    /\ checkSystemStatus(cbIsChecking, "start:force")
    /\ lastCycle' = NoCycle
    /\ lastProbe' = NoProbe
    /\ UNCHANGED <<status, cbIsChecking, effectDue, effectRan, checkInterval, intervalOn,
                   intervalCb>>

\* setStatus(s); finally setIsChecking(false)
Publish(c, s, seen) ==
    /\ status' = s
    /\ isChecking' = FALSE
    /\ cycles' = cycles (-) SetToBag({c})
    /\ lastCycle' = [health |-> seen.health, agents |-> seen.agents,
                     orchestrator |-> seen.orchestrator,
                     websockets |-> status.websockets]
    /\ lastEvent' = "published"
    /\ UNCHANGED <<cbIsChecking, effectDue, effectRan, checkInterval, intervalOn,
                   intervalCb, started>>

\* healthCheck() settles: the cycle builds newStatus and either awaits the agents
\* probe (backend healthy) or determines the overall status and publishes
HealthSettles ==
    \E t \in HealthTransports :
        LET h == healthCheck(t)
            ns == newStatusOf(h)
        IN  /\ BagIn(AtHealth, cycles)
            /\ UNCHANGED outsideStatus
            /\ lastProbe' = [transport |-> t, result |-> h]
            /\ IF h.healthy
               THEN /\ cycles' = (cycles (-) SetToBag({AtHealth}))
                                   (+) SetToBag({AtAgents(h, ns)})
                    /\ lastEvent' = "health-ok"
                    /\ lastCycle' = NoCycle
                    /\ UNCHANGED <<status, isChecking, cbIsChecking, effectDue, effectRan,
                                   checkInterval, intervalOn, intervalCb, started>>
               ELSE Publish(AtHealth, withOverall(ns),
                            [health |-> h, agents |-> "none", orchestrator |-> "none"])

\* getAgentsStatus() settles
AgentsSettles ==
    \E c \in BagToSet(cycles), r \in AgentsResults :
        /\ c.pc = "agents"
        /\ UNCHANGED outsideStatus
        /\ lastProbe' = NoProbe
        /\ Publish(c, withOverall(withAgentStatus(c.newStatus, r)),
                   [health |-> c.healthResponse, agents |-> r.kind,
                    orchestrator |-> IF r.kind = "data" THEN r.orchestrator_status
                                     ELSE "none"])

\* the awaited health probe rejects: catch { setStatus(errorStatus) } finally {...}
HealthThrows ==
    \E msg \in ErrorMessages :
        /\ BagIn(AtHealth, cycles)
        /\ UNCHANGED outsideStatus
        /\ status' = errorStatus(msg)
        /\ isChecking' = FALSE
        /\ cycles' = cycles (-) SetToBag({AtHealth})
        /\ lastCycle' = NoCycle
        /\ lastProbe' = NoProbe
        /\ lastEvent' = "caught"
        /\ UNCHANGED <<cbIsChecking, effectDue, effectRan, checkInterval, intervalOn,
                       intervalCb, started>>

InitStatus ==
    /\ status = initialStatus
    /\ isChecking = FALSE
    /\ cbIsChecking = FALSE
    /\ effectDue = TRUE
    /\ effectRan = FALSE
    /\ checkInterval \in {0, 30000}
    /\ intervalOn = FALSE
    /\ intervalCb = FALSE
    /\ cycles = EmptyBag
    /\ started = 0
    /\ lastEvent = "mount"
    /\ lastCycle = NoCycle
    /\ lastProbe = NoProbe

NextStatus ==
    \/ Render
    \/ RunEffect
    \/ IntervalTick
    \/ forceCheck
    \/ HealthSettles
    \/ AgentsSettles
    \/ HealthThrows

\* ------------------------------------------------------------ useWebSocket
\* sockets created in one behaviour
MaxSocks == 4

Urls == {"", "generation", "guest_user"}

maxReconnectAttemptsMutTwo == 3 - 1

maxReconnectAttempts == 3

RECURSIVE Pow2(_)
Pow2(n) == IF n = 0 THEN 1 ELSE 2 * Pow2(n - 1)

Min(a, b) == IF a < b THEN a ELSE b

\* the delay computed in onclose from the already incremented counter
reconnectDelayMutBeforeIncrement(attempts) == Min(1000 * Pow2(attempts - 1), 10000)

reconnectDelay(attempts) == Min(1000 * Pow2(attempts), 10000)

FailedMsg == "Failed to establish WebSocket connection after multiple attempts"
ErrorMsg == "WebSocket connection error - backend may not be available"

\* A socket whose close event was delivered and a timer that fired or was cleared
\* take no further part: what they were opened or scheduled for is dropped.
ClosedSock == [readyState |-> "CLOSED", url |-> "", onMessage |-> ""]
DoneTimer == [delay |-> 0, url |-> "", onMessage |-> "", state |-> "done"]

\* options.onMessage of the consumer: no handler, or one of two functions
Handlers == {"none", "h1", "h2"}

\* lastMessage before any frame parsed
NoMessage == [null |-> TRUE]

NoTraffic == [frame |-> [kind |-> "none"], handler |-> "none", delivered |-> <<>>,
              afterDrop |-> FALSE, open |-> FALSE, transmitted |-> <<>>,
              before |-> [lastMessage |-> NoMessage, isConnected |-> FALSE,
                          error |-> "null", reconnectAttempts |-> 0, timeouts |-> 0]]

\* ws.current = new WebSocket(wsUrl), for the url the calling closure was created with
Connected(ss, u, h) == Append(ss, [readyState |-> "CONNECTING", url |-> u, onMessage |-> h])

\* ws.current.close(): a connecting or open socket starts closing; its close event
\* is delivered later.  A closing or closed socket is left alone.
Closed(ss, i) ==
    IF i # 0 /\ ss[i].readyState \in {"CONNECTING", "OPEN"}
    THEN [ss EXCEPT ![i].readyState = "CLOSING"]
    ELSE ss

\* clearTimeout(reconnectTimeoutRef.current): cancels that timer if it is still pending
Cleared(ts, k) ==
    IF k # 0 /\ ts[k].state = "pending"
    THEN [ts EXCEPT ![k] = DoneTimer]
    ELSE ts

PendingTimers == {k \in 1..Len(timeouts) : timeouts[k].state = "pending"}
LiveSocks == {i \in 1..Len(socks) : socks[i].readyState \in {"CONNECTING", "OPEN"}}

\* the effect of the first render: if (url) connect()
ConnectEffect ==
    /\ wsEffectDue
    /\ wsEffectDue' = FALSE
    /\ IF url # ""
       THEN /\ socks' = Connected(socks, url, onMessageProp)
            /\ ws' = Len(socks) + 1
       ELSE UNCHANGED <<socks, ws>>
    /\ lastWsEvent' = "effect"
    /\ lastNotify' = <<>>
    /\ lastTraffic' = NoTraffic
    /\ UNCHANGED <<lastMessage, onMessageProp, lastValid>>
    /\ lastScheduled' = 0
    /\ UNCHANGED <<url, mounted, reconnectAttempts, timeouts, reconnectTimeoutRef,
                   isConnected, error, lostSinceOpen, delaysSinceOpen, torn>>
    /\ UNCHANGED outsideChannel

\* ws.onopen: reconnectAttempts.current = 0
onopenAttemptsMutKeep(attempts) == attempts

onopenAttempts(attempts) == 0

\* ws.onopen of socket i
OnOpen ==
    \E i \in 1..Len(socks) :
        /\ socks[i].readyState = "CONNECTING"
        /\ socks' = [socks EXCEPT ![i].readyState = "OPEN"]
        /\ isConnected' = TRUE
        /\ error' = "null"
        /\ reconnectAttempts' = onopenAttempts(reconnectAttempts)
        /\ lastNotify' = <<"onConnect">>
        /\ lastTraffic' = NoTraffic
        /\ UNCHANGED <<lastMessage, onMessageProp, lastValid>>
        /\ lostSinceOpen' = 0
        /\ delaysSinceOpen' = <<>>
        /\ lastWsEvent' = "open"
        /\ lastScheduled' = 0
        /\ UNCHANGED <<url, mounted, wsEffectDue, ws, timeouts, reconnectTimeoutRef, torn>>
        /\ UNCHANGED outsideChannel

\* ws.onclose: options.onDisconnect?.()
oncloseObserversMutNone == <<>>

oncloseObservers == <<"onDisconnect">>

\* the body of ws.onclose of socket i, run with the error text err and the observer
\* calls seen already made in the task that delivers the close event
onclose(i, err, seen) ==
    /\ socks' = [socks EXCEPT ![i] = ClosedSock]
    /\ isConnected' = FALSE
    /\ lastNotify' = seen \o oncloseObservers
    /\ lastTraffic' = NoTraffic
    /\ UNCHANGED <<lastMessage, onMessageProp, lastValid>>
    /\ lostSinceOpen' = lostSinceOpen + 1
    /\ IF reconnectAttempts < maxReconnectAttempts
       THEN /\ reconnectAttempts' = reconnectAttempts + 1
            /\ timeouts' = Append(timeouts,
                               [delay |-> reconnectDelay(reconnectAttempts + 1),
                                url |-> socks[i].url, onMessage |-> socks[i].onMessage,
                                state |-> "pending"])
            /\ reconnectTimeoutRef' = Len(timeouts) + 1
            /\ delaysSinceOpen' =
                   Append(delaysSinceOpen, reconnectDelay(reconnectAttempts + 1))
            /\ lastScheduled' = reconnectDelay(reconnectAttempts + 1)
            /\ error' = err
       ELSE /\ error' = FailedMsg
            /\ lastScheduled' = 0
            /\ UNCHANGED <<reconnectAttempts, timeouts, reconnectTimeoutRef,
                           delaysSinceOpen>>
    /\ lastWsEvent' = "close"
    /\ UNCHANGED <<url, mounted, wsEffectDue, ws, torn>>
    /\ UNCHANGED outsideChannel

\* the close event of socket i with no error event before it: the peer closed the
\* connection, or a close() of this socket completed
OnClose ==
    \E i \in 1..Len(socks) :
        /\ socks[i].readyState \in {"CONNECTING", "OPEN", "CLOSING"}
        /\ onclose(i, error, <<>>)

\* the transport of socket i fails (handshake refused, connection lost).  A browser
\* reports a failure as an error event immediately followed, in the same task, by
\* the close event of that socket: ws.onerror runs, then ws.onclose.
OnError ==
    \E i \in 1..Len(socks) :
        /\ socks[i].readyState \in {"CONNECTING", "OPEN"}
        /\ onclose(i, ErrorMsg, <<"onError">>)

\* a reconnect timer fires: connect() of the closure that scheduled it
TimerFires ==
    \E k \in PendingTimers :
        /\ Len(socks) < MaxSocks
        /\ timeouts' = [timeouts EXCEPT ![k] = DoneTimer]
        /\ socks' = Connected(socks, timeouts[k].url, timeouts[k].onMessage)
        /\ ws' = Len(socks) + 1
        /\ lastWsEvent' = "reconnect"
        /\ lastNotify' = <<>>
        /\ lastTraffic' = NoTraffic
        /\ UNCHANGED <<lastMessage, onMessageProp, lastValid>>
        /\ lastScheduled' = 0
        /\ UNCHANGED <<url, mounted, wsEffectDue, reconnectAttempts, reconnectTimeoutRef,
                       isConnected, error, lostSinceOpen, delaysSinceOpen, torn>>
        /\ UNCHANGED outsideChannel

\* the consumer calls the returned disconnect()
disconnect ==
    /\ mounted
    /\ ~wsEffectDue
    /\ timeouts' = Cleared(timeouts, reconnectTimeoutRef)
    /\ socks' = Closed(socks, ws)
    /\ torn' = TRUE
    /\ lastWsEvent' = "disconnect"
    /\ lastNotify' = <<>>
    /\ lastTraffic' = NoTraffic
    /\ UNCHANGED <<lastMessage, onMessageProp, lastValid>>
    /\ lastScheduled' = 0
    /\ UNCHANGED <<url, mounted, wsEffectDue, ws, reconnectAttempts, reconnectTimeoutRef,
                   isConnected, error, lostSinceOpen, delaysSinceOpen>>
    /\ UNCHANGED outsideChannel

\* the component unmounts: the effect's cleanup runs disconnect()
Unmount ==
    /\ mounted
    /\ ~wsEffectDue
    /\ mounted' = FALSE
    /\ timeouts' = Cleared(timeouts, reconnectTimeoutRef)
    /\ socks' = Closed(socks, ws)
    /\ torn' = TRUE
    /\ lastWsEvent' = "unmount"
    /\ lastNotify' = <<>>
    /\ lastTraffic' = NoTraffic
    /\ UNCHANGED <<lastMessage, onMessageProp, lastValid>>
    /\ lastScheduled' = 0
    /\ UNCHANGED <<url, wsEffectDue, ws, reconnectAttempts, reconnectTimeoutRef,
                   isConnected, error, lostSinceOpen, delaysSinceOpen>>
    /\ UNCHANGED outsideChannel

\* the channel name changes: cleanup of the old effect (disconnect()), then the new
\* effect (if (url) connect())
UrlChange ==
    \E u \in Urls :
        /\ mounted
        /\ ~wsEffectDue
        /\ u # url
        /\ url' = u
        /\ timeouts' = Cleared(timeouts, reconnectTimeoutRef)
        /\ IF u # ""
           THEN /\ Len(socks) < MaxSocks
                /\ socks' = Connected(Closed(socks, ws), u, onMessageProp)
                /\ ws' = Len(socks) + 1
                /\ torn' = FALSE
           ELSE /\ socks' = Closed(socks, ws)
                /\ torn' = TRUE
                /\ UNCHANGED ws
        /\ lastWsEvent' = "url"
        /\ lastNotify' = <<>>
        /\ lastTraffic' = NoTraffic
        /\ UNCHANGED <<lastMessage, onMessageProp, lastValid>>
        /\ lastScheduled' = 0
        /\ UNCHANGED <<mounted, wsEffectDue, reconnectAttempts, reconnectTimeoutRef,
                       isConnected, error, lostSinceOpen, delaysSinceOpen>>
        /\ UNCHANGED outsideChannel

InitChannel ==
    /\ url \in Urls
    /\ mounted = TRUE
    /\ wsEffectDue = TRUE
    /\ socks = <<>>
    /\ ws = 0
    /\ reconnectAttempts = 0
    /\ timeouts = <<>>
    /\ reconnectTimeoutRef = 0
    /\ isConnected = FALSE
    /\ error = "null"
    /\ lostSinceOpen = 0
    /\ delaysSinceOpen = <<>>
    /\ lastWsEvent = "mount"
    /\ lastScheduled = 0
    /\ lastNotify = <<>>
    /\ torn = FALSE
    /\ lastMessage = NoMessage
    /\ onMessageProp \in Handlers
    /\ lastValid = NoMessage
    /\ lastTraffic = NoTraffic

NextChannel ==
    \/ ConnectEffect
    \/ OnOpen
    \/ OnClose
    \/ OnError
    \/ TimerFires
    \/ disconnect
    \/ Unmount
    \/ UrlChange

\* ------------------------------------------- ModelProvider, ModelSelector
\* interface ModelConfig: endpoint is optional, "undefined" when the key is absent
Providers == {"gemini", "openai", "anthropic", "ollama"}
ModelNames == {"gpt-4", "llama3:8b"}
Endpoints == {"undefined", "http://localhost:11434"}
ModelConfigs == [provider : Providers, model : ModelNames, apiKey : {"", "sk-1"},
                 endpoint : Endpoints]

\* JavaScript values other than configuration objects
Null == [null |-> TRUE]
Number42 == [number |-> 42]

\* localStorage.getItem(key): Absent for null, else the stored text.  A text is
\* the empty string, an object literal given by its members in order, a literal
\* that is not an object, or text that is not JSON.
Absent == [kind |-> "absent"]
EmptyText == [kind |-> "empty"]
Malformed == [kind |-> "malformed"]
ObjectText(members) == [kind |-> "object", members |-> members]
LiteralText(v) == [kind |-> "literal", value |-> v]

\* JSON.stringify(config): the own properties in insertion order; a property whose
\* value is undefined is left out
JSONstringifyMutNoEndpoint(config) ==
    ObjectText(<<<<"provider", config.provider>>, <<"model", config.model>>,
                 <<"apiKey", config.apiKey>>>>)

JSONstringify(config) ==
    ObjectText(<<<<"provider", config.provider>>, <<"model", config.model>>,
                 <<"apiKey", config.apiKey>>>>
               \o (IF config.endpoint = "undefined" THEN <<>>
                   ELSE <<<<"endpoint", config.endpoint>>>>))

\* the value of property key of the object with these members: the last member of
\* that name, undefined when there is none
RECURSIVE Member(_, _)
Member(members, key) ==
    IF members = <<>> THEN "undefined"
    ELSE IF members[Len(members)][1] = key THEN members[Len(members)][2]
    ELSE Member(SubSeq(members, 1, Len(members) - 1), key)

\* JSON.parse(text): the value, or a SyntaxError (ok FALSE)
JSONparseMutLenient(text) ==
    IF text.kind = "object"
    THEN [ok |-> TRUE,
          value |-> [provider |-> Member(text.members, "provider"),
                     model |-> Member(text.members, "model"),
                     apiKey |-> Member(text.members, "apiKey"),
                     endpoint |-> Member(text.members, "endpoint")]]
    ELSE IF text.kind = "literal"
    THEN [ok |-> TRUE, value |-> text.value]
    ELSE [ok |-> TRUE, value |-> Number42]

JSONparse(text) ==
    IF text.kind = "object"
    THEN [ok |-> TRUE,
          value |-> [provider |-> Member(text.members, "provider"),
                     model |-> Member(text.members, "model"),
                     apiKey |-> Member(text.members, "apiKey"),
                     endpoint |-> Member(text.members, "endpoint")]]
    ELSE IF text.kind = "literal"
    THEN [ok |-> TRUE, value |-> text.value]
    ELSE [ok |-> FALSE, value |-> Null]

\* what localStorage can hold when the application starts: nothing, text written by
\* an earlier session, or text that something else left under the key
InitialTexts ==
    {Absent, EmptyText, Malformed, LiteralText(Null), LiteralText(Number42),
     ObjectText(<<<<"provider", "openai">>>>)}
    \cup {JSONstringify(c) : c \in {k \in ModelConfigs : k.model = "gpt-4"}}

\* `if (saved)`: null and the empty string are falsy
Truthy(saved) == saved.kind \notin {"absent", "empty"}

NoSave == [pc |-> "none"]

NoStep == [op |-> "mount", arg |-> Null, model |-> Null, text |-> Absent]
Step(op, arg) == [op |-> op, arg |-> arg, model |-> currentModel, text |-> storage]

\* the useEffect of ModelProvider's first render
LoadEffect ==
    /\ loadDue
    /\ loadDue' = FALSE
    /\ IF Truthy(storage) /\ JSONparse(storage).ok
       THEN currentModel' = JSONparse(storage).value
       ELSE UNCHANGED currentModel
    /\ lastStore' = Step("load", Null)
    /\ UNCHANGED <<storage, save, validationStatus, lastSet>>
    /\ UNCHANGED outsideStore

\* setModel(config) of the context
setModelMutMemoryOnly(config) ==
    /\ currentModel' = config
    /\ UNCHANGED storage
    /\ lastSet' = config

setModel(config) ==
    /\ currentModel' = config
    /\ storage' = JSONstringify(config)
    /\ lastSet' = config

\* a consumer of the context calls setModel(config)
SetModel ==
    \E config \in ModelConfigs :
        /\ ~loadDue
        /\ setModel(config)
        /\ lastStore' = Step("setModel", config)
        /\ UNCHANGED <<loadDue, save, validationStatus>>
        /\ UNCHANGED outsideStore

\* a consumer of the context calls removeModel()
removeModel ==
    /\ ~loadDue
    /\ currentModel' = Null
    /\ storage' = Absent
    /\ lastSet' = Null
    /\ lastStore' = Step("removeModel", Null)
    /\ UNCHANGED <<loadDue, save, validationStatus>>
    /\ UNCHANGED outsideStore

\* apiKey.trim() of the form's key field: " " stands for a key of white space only
ApiKeyInputs == {"", " ", "sk-1"}
trim(apiKey) == IF apiKey = " " THEN "" ELSE apiKey

\* selectedProvider !== 'ollama' && !apiKey.trim()
missingApiKey(provider, apiKey) == provider # "ollama" /\ trim(apiKey) = ""

\* the form of ModelSelector when Save is pressed
Forms == [selectedProvider : Providers, selectedModel : ModelNames,
          apiKey : ApiKeyInputs, endpoint : Endpoints \ {"undefined"}]

\* const config: ModelConfig = {...} of handleSave
configOf(form) ==
    [provider |-> form.selectedProvider, model |-> form.selectedModel,
     apiKey |-> trim(form.apiKey),
     endpoint |-> IF form.selectedProvider = "ollama" THEN form.endpoint
                  ELSE "undefined"]

\* handleSave() up to its first await
handleSave ==
    \E form \in Forms :
        /\ ~loadDue
        /\ save = NoSave
        /\ IF missingApiKey(form.selectedProvider, form.apiKey)
           THEN /\ validationStatus' = "error"
                /\ lastStore' = Step("rejected", configOf(form))
                /\ UNCHANGED save
           ELSE /\ validationStatus' = "validating"
                /\ save' = [pc |-> "configure", config |-> configOf(form)]
                /\ lastStore' = Step("configure", configOf(form))
        /\ UNCHANGED <<currentModel, storage, loadDue, lastSet>>
        /\ UNCHANGED outsideStore

\* ApiService.configureAI() settles: setModel(config) and on to the connection
\* test, or the outer catch
ConfigureSettlesMutSaveAnyway ==
    \E ok \in BOOLEAN :
        /\ save.pc = "configure"
        /\ IF ok
           THEN /\ setModel(save.config)
                /\ save' = [save EXCEPT !.pc = "test"]
                /\ lastStore' = Step("setModel", save.config)
                /\ UNCHANGED validationStatus
           ELSE /\ validationStatus' = "error"
                /\ save' = NoSave
                /\ lastStore' = Step("configure-failed", save.config)
                /\ setModel(save.config)
        /\ UNCHANGED loadDue
        /\ UNCHANGED outsideStore

ConfigureSettles ==
    \E ok \in BOOLEAN :
        /\ save.pc = "configure"
        /\ IF ok
           THEN /\ setModel(save.config)
                /\ save' = [save EXCEPT !.pc = "test"]
                /\ lastStore' = Step("setModel", save.config)
                /\ UNCHANGED validationStatus
           ELSE /\ validationStatus' = "error"
                /\ save' = NoSave
                /\ lastStore' = Step("configure-failed", save.config)
                /\ UNCHANGED <<currentModel, storage, lastSet>>
        /\ UNCHANGED loadDue
        /\ UNCHANGED outsideStore

\* ApiService.testAIConnection() settles
TestSettlesMutRollback ==
    \E ok \in BOOLEAN :
        /\ save.pc = "test"
        /\ validationStatus' = IF ok THEN "success" ELSE "error"
        /\ save' = NoSave
        /\ lastStore' = Step(IF ok THEN "tested" ELSE "test-failed", save.config)
        /\ IF ok THEN UNCHANGED <<currentModel, storage, lastSet>>
           ELSE currentModel' = Null /\ storage' = Absent /\ lastSet' = Null
        /\ UNCHANGED loadDue
        /\ UNCHANGED outsideStore

TestSettles ==
    \E ok \in BOOLEAN :
        /\ save.pc = "test"
        /\ validationStatus' = IF ok THEN "success" ELSE "error"
        /\ save' = NoSave
        /\ lastStore' = Step(IF ok THEN "tested" ELSE "test-failed", save.config)
        /\ UNCHANGED <<currentModel, storage, loadDue, lastSet>>
        /\ UNCHANGED outsideStore

\* the page is loaded again: every component state starts over, localStorage stays
Reload ==
    /\ ~loadDue
    /\ currentModel' = Null
    /\ loadDue' = TRUE
    /\ save' = NoSave
    /\ validationStatus' = "idle"
    /\ lastStore' = Step("reload", Null)
    /\ UNCHANGED <<storage, lastSet>>
    /\ UNCHANGED outsideStore

InitStore ==
    /\ currentModel = Null
    /\ storage \in InitialTexts
    /\ loadDue = TRUE
    /\ save = NoSave
    /\ validationStatus = "idle"
    /\ lastStore = NoStep
    /\ lastSet = Null

NextStore ==
    \/ LoadEffect
    \/ SetModel
    \/ removeModel
    \/ handleSave
    \/ ConfigureSettles
    \/ TestSettles
    \/ Reload

\* ------------------------------------------------ useWebSocket: messages
\* the messages the backend sends; a frame is the serialization of one of them, or
\* text that is not JSON
Messages == {[type |-> "generation_update", data |-> "d1"],
             [type |-> "agent_update", data |-> "d2"]}
Arrivals == [kind : {"json"}, message : Messages] \cup {[kind |-> "malformed"]}

\* event.data of an arriving frame
frameText(arrival) ==
    IF arrival.kind = "json"
    THEN ObjectText(<<<<"type", arrival.message.type>>, <<"data", arrival.message.data>>>>)
    ELSE Malformed

\* JSON.parse(event.data) in the try block of ws.onmessage
parseFrameMutLenient(text) ==
    IF text.kind = "object"
    THEN [ok |-> TRUE, value |-> [type |-> Member(text.members, "type"),
                                  data |-> Member(text.members, "data")]]
    ELSE [ok |-> TRUE, value |-> [type |-> "undefined", data |-> "undefined"]]

parseFrame(text) ==
    IF text.kind = "object"
    THEN [ok |-> TRUE, value |-> [type |-> Member(text.members, "type"),
                                  data |-> Member(text.members, "data")]]
    ELSE [ok |-> FALSE, value |-> NoMessage]

\* options.onMessage?.(message) after a successful parse
deliveriesMutTwice(h, r) ==
    IF r.ok /\ h # "none"
    THEN <<[handler |-> h, message |-> r.value], [handler |-> h, message |-> r.value]>>
    ELSE <<>>

deliveries(h, r) ==
    IF r.ok /\ h # "none" THEN <<[handler |-> h, message |-> r.value]>> ELSE <<>>

\* the channel state a frame or a send must leave alone when it is dropped
Before == [lastMessage |-> lastMessage, isConnected |-> isConnected, error |-> error,
           reconnectAttempts |-> reconnectAttempts,
           timeouts |-> Cardinality(PendingTimers)]

transportVars == <<url, mounted, wsEffectDue, socks, ws, reconnectAttempts, timeouts,
                   reconnectTimeoutRef, isConnected, error, lostSinceOpen,
                   delaysSinceOpen, torn>>

\* ws.onmessage of socket i; a socket delivers frames while it is open and, after
\* close(), until its close event
OnMessage ==
    \E i \in 1..Len(socks), arrival \in Arrivals :
        LET r == parseFrame(frameText(arrival))
            h == socks[i].onMessage
        IN  /\ socks[i].readyState \in {"OPEN", "CLOSING"}
            /\ lastMessage' = IF r.ok THEN r.value ELSE lastMessage
            /\ lastValid' = IF arrival.kind = "json" THEN arrival.message ELSE lastValid
            /\ lastTraffic' =
                  [NoTraffic EXCEPT
                     !.frame = arrival,
                     !.handler = h,
                     !.delivered = deliveries(h, r),
                     !.afterDrop = (lastWsEvent = "message"
                                    /\ lastTraffic.frame.kind = "malformed"),
                     !.before = Before]
            /\ lastWsEvent' = "message"
            /\ lastNotify' = <<>>
            /\ lastScheduled' = 0
            /\ UNCHANGED onMessageProp
            /\ UNCHANGED transportVars
            /\ UNCHANGED outsideChannel

\* the messages the consumer sends
Outbound == {[type |-> "ping"]}

\* ws.current && ws.current.readyState === WebSocket.OPEN
canSendMutAnySocket(w, ss) == w # 0

canSend(w, ss) == w # 0 /\ ss[w].readyState = "OPEN"

\* the consumer calls the returned sendMessage(message)
sendMessage ==
    \E message \in Outbound :
        /\ mounted
        /\ lastTraffic' =
              [NoTraffic EXCEPT
                 !.open = (ws # 0 /\ socks[ws].readyState = "OPEN"),
                 !.transmitted = IF canSend(ws, socks)
                                 THEN <<ObjectText(<<<<"type", message.type>>>>)>>
                                 ELSE <<>>,
                 !.before = Before]
        /\ lastWsEvent' = "send"
        /\ lastNotify' = <<>>
        /\ lastScheduled' = 0
        /\ UNCHANGED <<lastMessage, onMessageProp, lastValid>>
        /\ UNCHANGED transportVars
        /\ UNCHANGED outsideChannel

\* the consumer renders again and passes another onMessage; the effect's deps are
\* [url], so it does not run again
Rerender ==
    \E h \in Handlers :
        /\ mounted
        /\ ~wsEffectDue
        /\ h # onMessageProp
        /\ onMessageProp' = h
        /\ lastTraffic' = NoTraffic
        /\ lastWsEvent' = "render"
        /\ lastNotify' = <<>>
        /\ lastScheduled' = 0
        /\ UNCHANGED <<lastMessage, lastValid>>
        /\ UNCHANGED transportVars
        /\ UNCHANGED outsideChannel

\* one channel name for the whole life of the consumer
NextMessages ==
    \/ ConnectEffect
    \/ OnOpen
    \/ OnClose
    \/ OnError
    \/ TimerFires
    \/ disconnect
    \/ OnMessage
    \/ sendMessage
    \/ Rerender

\* ------------------------- DataGenerator, RealTimeStatus: process logs
\* log entries appended beyond the capacity of the buffer in one behaviour
MaxOverflow == 2

\* the component that is mounted
Components == {"DataGenerator", "RealTimeStatus"}

\* the argument of slice() in the component's setProcessLogs updater
logCapacity(c) == IF c = "DataGenerator" THEN 50 ELSE 20

\* The data of the generation_update messages the component's effect sees.  The
\* backend runs one job after the other: updates of a job carry a progress in 0..99
\* (50 here) until one carries 100 (completed) or -1 (failed); loggable is
\* `data.step && data.message`.
JobIds == {1, 2}
Progresses == {50, 100, -1}
Updates == [job_id : JobIds, progress : Progresses, loggable : BOOLEAN]
NoJob == [job_id |-> 0, ended |-> TRUE]
InOrder(data) ==
    \/ data.job_id = backend.job_id /\ ~backend.ended
    \/ data.job_id = backend.job_id + 1

\* s.slice(-n)
LastN(s, n) == IF Len(s) <= n THEN s ELSE SubSeq(s, Len(s) - n + 1, Len(s))

\* the updater given to setProcessLogs: [...prev, entry].slice(-capacity)
appendLogMutKeepOldest(prev, entry, capacity) ==
    SubSeq(Append(prev, entry), 1, Min(Len(prev) + 1, capacity))

appendLog(prev, entry, capacity) == LastN(Append(prev, entry), capacity)

\* DataGenerator's logEntry; id stands for the entry's id and timestamp
logEntry(data, id) ==
    [id |-> id,
     level |-> IF data.progress = -1 THEN "error"
               ELSE IF data.progress = 100 THEN "success" ELSE "info",
     progress |-> data.progress]

\* RealTimeStatus keeps the data of the message; id stands for its timestamp
processLog(data, id) == [id |-> id, job_id |-> data.job_id, progress |-> data.progress]

Inactive == [active |-> FALSE, job_id |-> 0, progress |-> 0]

NoCleanup == [removedLater |-> FALSE, resetLater |-> FALSE]

\* DataGenerator's effect on lastMessage, for a generation_update message
DataGeneratorUpdate ==
    \E data \in Updates :
        /\ component = "DataGenerator"
        /\ InOrder(data)
        /\ appended < logCapacity(component) + MaxOverflow
        /\ backend' = [job_id |-> data.job_id, ended |-> data.progress \in {100, -1}]
        /\ IF data.loggable
           THEN /\ processLogs' = appendLog(processLogs, logEntry(data, appended + 1),
                                            logCapacity(component))
                /\ appended' = appended + 1
                /\ sinceClear' = sinceClear + 1
           ELSE UNCHANGED <<processLogs, appended, sinceClear>>
        /\ isGenerating' = IF data.progress \in {100, -1} THEN FALSE ELSE isGenerating
        /\ lastCleanup' = NoCleanup
        /\ UNCHANGED <<component, currentGeneration, logTimers, generateAwaiting>>
        /\ UNCHANGED outsideLogs

\* DataGenerator's handleGenerate() up to `await dataService.generateSyntheticDataset`;
\* the button is disabled while isGenerating, and the user waits for the previous
\* request to return
handleGenerate ==
    /\ component = "DataGenerator"
    /\ ~isGenerating
    /\ ~generateAwaiting
    /\ isGenerating' = TRUE
    /\ generateAwaiting' = TRUE
    /\ processLogs' = <<>>
    /\ sinceClear' = 0
    /\ lastCleanup' = NoCleanup
    /\ UNCHANGED <<component, backend, appended, currentGeneration, logTimers>>
    /\ UNCHANGED outsideLogs

\* generateSyntheticDataset() settles: both outcomes setIsGenerating(false)
GenerateSettles ==
    /\ generateAwaiting
    /\ generateAwaiting' = FALSE
    /\ isGenerating' = FALSE
    /\ lastCleanup' = NoCleanup
    /\ UNCHANGED <<component, backend, processLogs, appended, sinceClear,
                   currentGeneration, logTimers>>
    /\ UNCHANGED outsideLogs

\* RealTimeStatus's effect on lastMessage, for a generation_update message
RealTimeStatusUpdate ==
    \E data \in Updates :
        /\ component = "RealTimeStatus"
        /\ InOrder(data)
        /\ appended < logCapacity(component) + MaxOverflow
        /\ backend' = [job_id |-> data.job_id, ended |-> data.progress \in {100, -1}]
        /\ processLogs' = appendLog(processLogs, processLog(data, appended + 1),
                                    logCapacity(component))
        /\ appended' = appended + 1
        /\ sinceClear' = sinceClear + 1
        /\ currentGeneration' =
              [active |-> (data.progress < 100 /\ data.progress >= 0),
               job_id |-> data.job_id, progress |-> data.progress]
        /\ logTimers' =
              IF data.progress \in {100, -1}
              THEN logTimers \cup {[delay |-> 2000, job_id |-> data.job_id,
                                    progress |-> data.progress]}
              ELSE logTimers
        /\ lastCleanup' = NoCleanup
        /\ UNCHANGED <<component, isGenerating, generateAwaiting>>
        /\ UNCHANGED outsideLogs

\* the 2 s timer of a completion message fires
ResetTimerFires ==
    \E t \in logTimers :
        /\ t.delay = 2000
        /\ currentGeneration' = Inactive
        /\ lastCleanup' = [removedLater |-> FALSE,
                           resetLater |-> (currentGeneration.active
                                           /\ currentGeneration.job_id > t.job_id)]
        /\ logTimers' =
              (logTimers \ {t})
              \cup (IF t.progress = 100 THEN {[t EXCEPT !.delay = 5000]} ELSE {})
        /\ UNCHANGED <<component, backend, processLogs, appended, sinceClear,
                       isGenerating, generateAwaiting>>
        /\ UNCHANGED outsideLogs

\* the 5 s timer fires: setProcessLogs([])
ClearTimerFires ==
    \E t \in logTimers :
        /\ t.delay = 5000
        /\ processLogs' = <<>>
        /\ lastCleanup' = [removedLater |->
                               (\E i \in 1..Len(processLogs) :
                                   processLogs[i].job_id > t.job_id),
                           resetLater |-> FALSE]
        /\ sinceClear' = 0
        /\ logTimers' = logTimers \ {t}
        /\ UNCHANGED <<component, backend, appended, currentGeneration,
                       isGenerating, generateAwaiting>>
        /\ UNCHANGED outsideLogs

InitLogs ==
    /\ component \in Components
    /\ backend = NoJob
    /\ processLogs = <<>>
    /\ appended = 0
    /\ sinceClear = 0
    /\ currentGeneration = Inactive
    /\ logTimers = {}
    /\ isGenerating = FALSE
    /\ generateAwaiting = FALSE
    /\ lastCleanup = NoCleanup

NextLogs ==
    \/ DataGeneratorUpdate
    \/ handleGenerate
    \/ GenerateSettles
    \/ RealTimeStatusUpdate
    \/ ResetTimerFires
    \/ ClearTimerFires

\* the components are independent: each specification runs one of them and holds
\* the others at their state after construction
InitOfStatus ==
    /\ InitStatus
    /\ InitChannel /\ url = "" /\ onMessageProp = "none"
    /\ InitStore /\ storage = Absent
    /\ InitLogs /\ component = "RealTimeStatus"
InitOfChannel ==
    /\ InitStatus /\ checkInterval = 0
    /\ InitChannel /\ onMessageProp = "none"
    /\ InitStore /\ storage = Absent
    /\ InitLogs /\ component = "RealTimeStatus"
InitOfStore ==
    /\ InitStatus /\ checkInterval = 0
    /\ InitChannel /\ url = "" /\ onMessageProp = "none"
    /\ InitStore
    /\ InitLogs /\ component = "RealTimeStatus"
InitOfMessages ==
    /\ InitStatus /\ checkInterval = 0
    /\ InitChannel /\ url = "generation"
    /\ InitStore /\ storage = Absent
    /\ InitLogs /\ component = "RealTimeStatus"
InitOfLogs ==
    /\ InitStatus /\ checkInterval = 0
    /\ InitChannel /\ url = "" /\ onMessageProp = "none"
    /\ InitStore /\ storage = Absent
    /\ InitLogs

SpecStatus == InitOfStatus /\ [][NextStatus]_vars

SpecChannel == InitOfChannel /\ [][NextChannel]_vars

SpecStore == InitOfStore /\ [][NextStore]_vars

SpecMessages == InitOfMessages /\ [][NextMessages]_vars

SpecLogs == InitOfLogs /\ [][NextLogs]_vars

\* ------------------------------------------------------------ properties
StartEvents == {"start:mount", "start:tick", "start:force", "start:effect-rerun"}

\* C1: at most one poll cycle is in flight at any time: an invocation of
\* checkSystemStatus or forceCheck that arrives while a cycle is in flight issues
\* no health probe.
C1_AtMostOneCycleInFlight == InFlight <= 1

\* C2: in every status held, the verdict is unhealthy whenever backend.healthy is
\* false, and it is healthy only if backend.healthy, gemini online and agents.active.
C2_VerdictPriority ==
    /\ ~status.backend.healthy => status.overall.status = "unhealthy"
    /\ status.overall.status = "healthy" =>
          (status.backend.healthy /\ status.gemini.status = "online"
           /\ status.agents.active)

\* a cycle published a status whose backend is unhealthy while its agents look active
C2_Witness ==
    /\ lastEvent = "published"
    /\ ~status.backend.healthy
    /\ status.agents.active

\* C3: the reconnects scheduled for consecutive losses with no successful open in
\* between have the delays 2000, 4000, 8000 ms, one per loss, and there is no 4th.
C3_BackoffDelays ==
    /\ Len(delaysSinceOpen) = Min(lostSinceOpen, 3)
    /\ \A n \in 1..Len(delaysSinceOpen) :
          delaysSinceOpen[n] = <<2000, 4000, 8000>>[n]

\* a 4th consecutive loss after the three reconnects were scheduled
C3_Witness ==
    /\ lostSinceOpen = 4
    /\ delaysSinceOpen = <<2000, 4000, 8000>>

\* C4: after disconnect() (also on unmount or channel-name change to none) no
\* reconnect timer is pending or gets scheduled and no transport is connecting or open.
C4_NoReconnectAfterDisconnect == torn => (PendingTimers = {} /\ LiveSocks = {})

\* C5 as stated: after the 3rd consecutive close with no open in between the channel
\* is failed and that close schedules no reconnect timer.
C5_FailedAfterThirdClose ==
    (lastWsEvent = "close" /\ lostSinceOpen = 3) =>
        (error = FailedMsg /\ lastScheduled = 0)

\* C5 amended: the 3rd consecutive close still schedules the 8000 ms reconnect; it
\* is the 4th (and any later) consecutive close that sets the failure error and
\* schedules no reconnect timer.
C5_FailedAfterFourthClose ==
    /\ (lastWsEvent = "close" /\ lostSinceOpen = 3) => lastScheduled = 8000
    /\ (lastWsEvent = "close" /\ lostSinceOpen >= 4) =>
          (error = FailedMsg /\ lastScheduled = 0 /\ ~isConnected)

\* the 4th consecutive close has just been handled
C5_Witness ==
    /\ lastWsEvent = "close"
    /\ lostSinceOpen = 4
    /\ error = FailedMsg

\* C6: a poll cycle starts only at mount, on an interval tick with checkInterval > 0,
\* or on forceCheck; with checkInterval = 0 every cycle after the first is forced.
C6_CycleStartCauses ==
    lastEvent \in StartEvents =>
        /\ lastEvent \in {"start:mount", "start:tick", "start:force"}
        /\ lastEvent = "start:tick" => checkInterval > 0
        /\ (checkInterval = 0 /\ started > 1) => lastEvent = "start:force"

\* C7: a cycle that throws replaces the status by the complete synthetic unhealthy
\* status with backend.error set and releases the guard.
C7_ThrowContained ==
    lastEvent = "caught" =>
        /\ ~status.backend.healthy
        /\ status.backend.error \in ErrorMessages
        /\ status.backend.lastCheck = "set"
        /\ status.gemini.status = "offline"
        /\ status.agents = [active |-> FALSE, total |-> 5, operational |-> 0,
                            details |-> NoDetails]
        /\ status.websockets = [connected |-> FALSE, status |-> "error"]
        /\ status.overall.status = "unhealthy"
        /\ ~isChecking

\* a forceCheck started a new cycle while the status of a thrown cycle is held
C7_Witness ==
    /\ lastEvent = "start:force"
    /\ status.websockets.status = "error"
    /\ status.backend.error \in ErrorMessages

\* C8: a cycle whose health probe reports unhealthy publishes backend.healthy false,
\* backend.error set, gemini offline, agents.active false and verdict unhealthy.
C8_UnhealthyProbeStatus ==
    (lastEvent = "published" /\ ~lastCycle.health.healthy) =>
        /\ ~status.backend.healthy
        /\ status.backend.error # "undefined"
        /\ status.gemini.status = "offline"
        /\ ~status.agents.active
        /\ status.overall.status = "unhealthy"

\* C9: primary probe healthy and agents probe throws: the cycle publishes a status
\* with backend.healthy true, the agents fields derived from the primary payload,
\* and a verdict that is not unhealthy.
C9_SecondaryFailureTolerated ==
    (lastEvent = "published" /\ lastCycle.health.healthy /\ lastCycle.agents = "throw") =>
        /\ status.backend.healthy
        /\ status.backend.error = "undefined"
        /\ status.agents =
              [active |-> (lastCycle.health.data.agents = "active"),
               total |-> 5,
               operational |-> IF lastCycle.health.data.agents = "active" THEN 5 ELSE 0,
               details |-> NoDetails]
        /\ status.overall.status # "unhealthy"

\* such a cycle has published, its primary payload reporting active agents
C9_Witness ==
    /\ lastEvent = "published"
    /\ lastCycle.health.healthy
    /\ lastCycle.agents = "throw"
    /\ lastCycle.health.data.agents = "active"
    /\ status.agents.operational = 5

\* C10: primary probe healthy and agents probe throws: the verdict is degraded for
\* every primary payload.
C10_SecondaryFailureDegraded ==
    (lastEvent = "published" /\ lastCycle.health.healthy /\ lastCycle.agents = "throw") =>
        status.overall.status = "degraded"

\* C16: in every status the hook holds, agents.operational <= agents.total, whatever
\* total_agents and agents mapping the agents probe returned.
C16_OperationalWithinTotal ==
    status.agents.operational <= status.agents.total

\* C17 as stated: a cycle whose health probe is healthy and reports gemini ready,
\* agents active and websockets ready publishes the verdict healthy.
C17_AllReadyHealthy ==
    (lastEvent = "published" /\ lastCycle.health.healthy
        /\ lastCycle.health.data = AllReady) =>
        status.overall.status = "healthy"

\* C17 amended: such a cycle publishes the verdict healthy unless its agents probe
\* returned an agents mapping with an orchestrator_status other than active.
C17_AllReadyHealthyUnlessOrchestratorIdle ==
    (lastEvent = "published" /\ lastCycle.health.healthy
        /\ lastCycle.health.data = AllReady
        /\ (lastCycle.agents = "data" => lastCycle.orchestrator = "active")) =>
        status.overall.status = "healthy"

\* an all-ready cycle whose agents probe failed has published the verdict healthy
C17_Witness ==
    /\ lastEvent = "published"
    /\ lastCycle.health.healthy
    /\ lastCycle.health.data = AllReady
    /\ lastCycle.agents = "throw"
    /\ status.overall.status = "healthy"

\* C18: a cycle whose health probe is healthy, reports a gemini status other than
\* ready and has no agents key publishes a gemini state that is not online,
\* agents.active false and the verdict degraded.
C18_NotReadyDegraded ==
    (lastEvent = "published" /\ lastCycle.health.healthy
        /\ lastCycle.health.data.present
        /\ lastCycle.health.data.gemini # "ready"
        /\ lastCycle.health.data.agents = "missing") =>
        /\ status.gemini.status \in {"unknown", "offline"}
        /\ ~status.agents.active
        /\ status.overall.status = "degraded"

\* C19: an open resets the reconnect counter to 0 and calls onConnect, so the first
\* loss after an open schedules the 2000 ms reconnect and each of the first three
\* losses after an open schedules one.
C19_OpenResetsBackoff ==
    /\ lastWsEvent = "open" =>
          (reconnectAttempts = 0 /\ isConnected /\ lastNotify = <<"onConnect">>)
    /\ (lastWsEvent = "close" /\ lostSinceOpen = 1) => lastScheduled = 2000
    /\ lostSinceOpen <= 3 => Len(delaysSinceOpen) = lostSinceOpen

\* the first loss after an open that itself followed an earlier loss: a timer of the
\* earlier loss exists, and the counter was reset in between
C19_Witness ==
    /\ lastWsEvent = "close"
    /\ lostSinceOpen = 1
    /\ Len(timeouts) >= 2
    /\ lastScheduled = 2000

\* C20: when the transport reports a close, or an error (which the close follows),
\* isConnected is false afterwards and onDisconnect has been called.
C20_LossDisconnects ==
    lastWsEvent = "close" =>
        /\ ~isConnected
        /\ lastNotify \in {<<"onDisconnect">>, <<"onError", "onDisconnect">>}

\* an error was reported on the connection opened after an earlier loss
C20_Witness ==
    /\ lastWsEvent = "close"
    /\ lastNotify = <<"onError", "onDisconnect">>
    /\ lostSinceOpen = 1
    /\ Len(timeouts) = 2
    /\ error = ErrorMsg

\* C12: setting a configuration of a non-ollama provider with an empty apiKey is
\* rejected: currentModel and the stored text are what they were before the call.
C12_EmptyKeyRejected ==
    (lastStore.op = "setModel" /\ missingApiKey(lastStore.arg.provider, lastStore.arg.apiKey)) =>
        (currentModel = lastStore.model /\ storage = lastStore.text)

\* C13: the load that follows setModel(config) and a reload yields a currentModel
\* equal to config, for every provider, with or without endpoint.
C13_RoundTrip ==
    (lastStore.op = "load" /\ lastSet # Null
        /\ ~missingApiKey(lastSet.provider, lastSet.apiKey)) =>
        currentModel = lastSet

\* an ollama configuration with an endpoint came back from storage after a reload
C13_Witness ==
    /\ lastStore.op = "load"
    /\ lastSet # Null
    /\ lastSet.provider = "ollama"
    /\ lastSet.endpoint # "undefined"
    /\ currentModel = lastSet

\* C14: right after setModel(c) currentModel is c and the stored text parses to c;
\* right after removeModel() currentModel is null and nothing is stored.
C14_MemoryMatchesStorage ==
    /\ lastStore.op = "setModel" =>
          (currentModel = lastStore.arg
           /\ JSONparse(storage) = [ok |-> TRUE, value |-> lastStore.arg])
    /\ lastStore.op = "removeModel" => (currentModel = Null /\ storage = Absent)

\* a configuration without endpoint replaced one that had an endpoint
C14_Witness ==
    /\ lastStore.op = "setModel"
    /\ lastStore.model \in ModelConfigs
    /\ lastStore.model.endpoint # "undefined"
    /\ lastStore.arg.endpoint = "undefined"
    /\ JSONparse(storage).value = lastStore.arg

C11_LastCapacityEntries ==
    /\ Len(processLogs) <= logCapacity(component)
    /\ appended > logCapacity(component) =>
          /\ Len(processLogs) = logCapacity(component)
          /\ \A i \in 1..Len(processLogs) :
                processLogs[i].id = appended - Len(processLogs) + i

\* C11 amended: the buffer never holds more than its capacity, and it always holds
\* the entries appended since it was last emptied, or the last capacity of them
\* once there are more, in arrival order.
C11_LastCapacityEntriesSinceClear ==
    /\ Len(processLogs) <= logCapacity(component)
    /\ Len(processLogs) = Min(sinceClear, logCapacity(component))
    /\ \A i \in 1..Len(processLogs) :
          processLogs[i].id = appended - Len(processLogs) + i

\* more than capacity entries were appended to a buffer that had been emptied before
C11_Witness ==
    /\ sinceClear > logCapacity(component)
    /\ appended > sinceClear
    /\ Len(processLogs) = logCapacity(component)
    /\ processLogs[1].id = appended - logCapacity(component) + 1

\* C24: healthCheck() never throws: for a response it returns healthy exactly when
\* the status is 200, with the body as data; for a rejected request it returns
\* healthy false and no data; the cycle goes on with the result either way.
C24_HealthCheckNeverThrows ==
    lastProbe # NoProbe =>
        /\ lastEvent \in {"health-ok", "published"}
        /\ lastProbe.transport.kind = "response" =>
              lastProbe.result = [healthy |-> (lastProbe.transport.code = 200),
                                  data |-> lastProbe.transport.data]
        /\ lastProbe.transport.kind = "reject" =>
              lastProbe.result = [healthy |-> FALSE, data |-> NoData]

\* a response whose status is 2xx but not 200 was turned into a negative result
\* that carries the body
C24_Witness ==
    /\ lastProbe # NoProbe
    /\ lastProbe.transport.kind = "response"
    /\ lastProbe.transport.code # 200
    /\ ~lastProbe.result.healthy
    /\ lastProbe.result.data.present
    /\ lastEvent = "published"

\* C27: a cycle whose health probe reports unhealthy publishes a status whose
\* websockets part is what the status held before.
C27_UnhealthyKeepsWebsockets ==
    (lastEvent = "published" /\ ~lastCycle.health.healthy) =>
        status.websockets = lastCycle.websockets

\* C25: when configureAI() succeeded and testAIConnection() fails, the failure
\* changes neither currentModel nor the stored text, and the configuration of the
\* flow, unless a later setModel or removeModel call replaced it, is what
\* currentModel holds and what the stored text parses to.
C25_TestFailureKeepsConfig ==
    lastStore.op = "test-failed" =>
        /\ currentModel = lastStore.model
        /\ storage = lastStore.text
        /\ lastSet = lastStore.arg =>
              (currentModel = lastStore.arg
               /\ JSONparse(storage) = [ok |-> TRUE, value |-> lastStore.arg])

\* the connection test of a saved ollama configuration failed
C25_Witness ==
    /\ lastStore.op = "test-failed"
    /\ validationStatus = "error"
    /\ lastSet = lastStore.arg
    /\ lastStore.arg.provider = "ollama"
    /\ currentModel = lastStore.arg
    /\ storage = JSONstringify(lastStore.arg)

\* C29: handleSave does not touch currentModel or the stored text before
\* configureAI() has succeeded: neither its start nor the failure of the call
\* changes them, and the failed flow is over.
C29_StoredOnlyAfterConfigure ==
    /\ lastStore.op \in {"configure", "configure-failed"} =>
          (currentModel = lastStore.model /\ storage = lastStore.text)
    /\ lastStore.op = "configure-failed" =>
          (save = NoSave /\ validationStatus = "error")

\* configureAI() failed for a configuration other than the one that is stored
C29_Witness ==
    /\ lastStore.op = "configure-failed"
    /\ currentModel \in ModelConfigs
    /\ currentModel # lastStore.arg
    /\ JSONparse(storage).value = currentModel

\* C30: the timers scheduled by a completion message of RealTimeStatus never empty
\* a buffer that holds entries of a later job and never reset currentGeneration
\* while a later job is active.
C30_CleanupSparesLaterGeneration ==
    ~lastCleanup.removedLater /\ ~lastCleanup.resetLater

\* C28: at every moment at most one transport of the hook is connecting or open.
C28_AtMostOneLiveTransport == Cardinality(LiveSocks) <= 1

\* C21: every inbound frame that parses is handed to the channel's message handler
\* exactly once, within the step in which it arrived (so in arrival order, unbatched),
\* and lastMessage is always the most recently arrived valid frame.
C21_ValidFrameDeliveredOnce ==
    /\ lastMessage = lastValid
    /\ (lastWsEvent = "message" /\ lastTraffic.frame.kind = "json") =>
          /\ lastMessage = lastTraffic.frame.message
          /\ lastTraffic.handler # "none" =>
                lastTraffic.delivered = <<[handler |-> lastTraffic.handler,
                                           message |-> lastTraffic.frame.message]>>

C21_Witness ==
    /\ lastWsEvent = "message"
    /\ lastTraffic.frame.kind = "json"
    /\ lastTraffic.handler # "none"
    /\ Len(lastTraffic.delivered) = 1
    /\ lastTraffic.before.lastMessage # NoMessage
    /\ lastTraffic.before.lastMessage # lastMessage

\* C22: a frame that fails to parse is dropped: no handler call, lastMessage,
\* isConnected, error and the attempt counter unchanged, no reconnect scheduled,
\* and the valid frame that follows is still delivered.
C22_MalformedFrameDropped ==
    /\ (lastWsEvent = "message" /\ lastTraffic.frame.kind = "malformed") =>
          /\ lastTraffic.delivered = <<>>
          /\ Before = lastTraffic.before
          /\ lastScheduled = 0
    /\ (lastWsEvent = "message" /\ lastTraffic.afterDrop
                                /\ lastTraffic.frame.kind = "json") =>
          /\ lastMessage = lastTraffic.frame.message
          /\ lastTraffic.handler # "none" => Len(lastTraffic.delivered) = 1

C22_Witness ==
    /\ lastWsEvent = "message"
    /\ lastTraffic.afterDrop
    /\ lastTraffic.frame.kind = "json"
    /\ lastTraffic.handler # "none"
    /\ Len(lastTraffic.delivered) = 1
    /\ lastMessage # lastTraffic.before.lastMessage

\* C23: sendMessage while the transport is absent or not open transmits nothing,
\* changes no channel state, and nothing is transmitted by any later step.
C23_SendWhileNotConnectedIsNoOp ==
    /\ lastWsEvent = "send" =>
          /\ ~lastTraffic.open => lastTraffic.transmitted = <<>>
          /\ Before = lastTraffic.before
    /\ lastWsEvent # "send" => lastTraffic.transmitted = <<>>

C23_Witness ==
    /\ lastWsEvent = "send"
    /\ ~lastTraffic.open
    /\ lastTraffic.transmitted = <<>>
    /\ Cardinality(PendingTimers) > 0
    /\ ws # 0

\* C26: a valid message goes to the handler the consumer registered most recently.
C26_DeliveredToLatestHandler ==
    (lastWsEvent = "message" /\ lastTraffic.frame.kind = "json"
                            /\ onMessageProp # "none") =>
        lastTraffic.delivered = <<[handler |-> onMessageProp,
                                   message |-> lastTraffic.frame.message]>>

====
